---------------------------- MODULE Spec2Model ----------------------------
(***************************************************************************)
(* Model of the abkhazia recipe pipeline:                                  *)
(*   - LanguageModel (abkhazia/core/language_model.py): parameter checks,  *)
(*     create() and the staged run() with its three stage methods          *)
(*     _compile_fst, _compute_lm and _format_lm, one action per statement  *)
(*     that touches the file system or runs an external program;           *)
(*   - AbkhaziaAlign.run (abkhazia/commands/abkhazia_align.py): option     *)
(*     parsing, recipe instantiation and the create/run/export sequence.   *)
(* One process runs one command: the language-model recipe or the align    *)
(* command.                                                                *)
(*                                                                         *)
(* Environment, for the helpers that the recipe calls and that live in     *)
(* other modules of abkhazia:                                              *)
(*   - utils.jobs.run starts the program and raises when it fails; a      *)
(*     failed program may have written any part of its output;             *)
(*   - utils.remove deletes an existing file or directory; on a path that  *)
(*     does not exist it raises, unless safe=True;                         *)
(*   - a2k._local_path() is a directory of its own, the variable local:    *)
(*     _prepare_lang passes it and output_dir/local to the script as two   *)
(*     different arguments.  output_dir/local is the "local/..." part of   *)
(*     output_dir.files.                                                   *)
(***************************************************************************)
EXTENDS Integers, Sequences, FiniteSets, TLC

(***************************************************************************)
(* Bounds of the model.                                                    *)
(***************************************************************************)
MaxOrder == 1        \* orders range over 0..MaxOrder (plus a non-integer)
MaxSilProb == 3      \* silence probabilities range over -1..MaxSilProb halves
MaxRuns == 2         \* number of run() calls on one LanguageModel instance
MaxDictLines == 2    \* lines of the CMU dictionary file
MaxTrsLines == 2     \* lines of the transcription file
MaxPhones == 2       \* phone codes of a pronunciation given to the conversion

\* silence probabilities are counted in halves: 1.0 is SilOne halves
SilOne == 2

VARIABLES
    \* ---- LanguageModel instance ----
    level,                     \* self.level
    order,                     \* self.order, [isInt, val]
    silence_probability,       \* self.silence_probability, in halves
    position_dependent_phones, \* self.position_dependent_phones
    local,                     \* files present in self.a2k._local_path()
    output_dir,                \* self.output_dir: [exists, files]
    tmp_dir,                   \* the mkdtemp() directory of _format_lm
    temp,                      \* the NamedTemporaryFile of _compile_fst exists
    pc,                        \* position of the language-model command
    err,                       \* exception in flight or raised ("none" if none)
    stages,                    \* stage methods run() has called in this run
    calls,                     \* external programs started in this run
    warned,                    \* log.warning emitted by this run
    runNo,                     \* number of run() calls started so far
    history,                   \* outcomes of the earlier run() calls
    probed,                    \* what run() saw when it probed G.txt/G.arpa.gz
    preRun,                    \* file system when this run() was entered
    fmtPre,                    \* output_dir when _format_lm was entered
    command,                   \* the command _prepare_lang built in this run
    setup,                     \* the setup calls create() has made, in order
    \* ---- align command ----
    args,                      \* parsed command line of 'abkhazia align'
    apc,                       \* position of the align command
    recipe,                    \* attributes set on the recipe object
    recipe_dir,                \* the recipe's temporary recipe_dir exists
    acalls,                    \* recipe methods called, in order
    aerr,                      \* exception raised by the align command
    \* ---- AICPreparator.make_lexicon ----
    cmu_dict,                  \* lines of the file self.cmu_dict
    transcription_file,        \* lines of the file self.transcription_file
    temp_lex,                  \* logs_dir/temp_lexicon_cmu.txt: [exists, lines]
    oov,                       \* logs_dir/temp_OOV.txt: [exists, lines]
    lexicon_file,              \* self.lexicon_file: [exists, lines]
    ppc,                       \* position of the preparator
    perr,                      \* exception raised by the preparator
    \* ---- the symbol conversion of make_lexicon_aux ----
    phones,                    \* the phone codes of the pronunciation
    phn_trs,                   \* the pronunciation, CMU symbols
    aic_trs,                   \* phn_trs after the replacements
    cmu_trs                    \* aic_trs converted back

lmVars == <<level, order, silence_probability, position_dependent_phones,
            local, output_dir, tmp_dir, temp, pc, err, stages, calls, warned,
            runNo, history, probed, preRun, fmtPre, command, setup>>
alignVars == <<args, apc, recipe, recipe_dir, acalls, aerr>>
prepVars == <<cmu_dict, transcription_file, temp_lex, oov, lexicon_file, ppc,
              perr, phones, phn_trs, aic_trs, cmu_trs>>
vars == <<lmVars, alignVars, prepVars>>

Range(s) == { s[i] : i \in DOMAIN s }

(***************************************************************************)
(* Parameter domains.                                                      *)
(***************************************************************************)
Levels == {"word", "phone", "syllable"}
Orders == [isInt : {TRUE}, val : 0..MaxOrder] \cup {[isInt |-> FALSE, val |-> 3]}
SilProbs == (-1)..MaxSilProb

\* artifacts a caller may seed in the local directory
SeedFiles == {"G.txt", "G.arpa.gz", "G.fst"}
\* temporary files of _compute_lm
TempFiles == {"text_ready.txt", "text_se.txt", "text_lm.gz", "text_blm.gz"}
\* files prepare_lang writes in the lang directory (output_dir)
LangFiles == {"words.txt", "L.fst"}
\* files copied by _setup_prepare_lang_wpdpl
ShareFiles == {"local/prepare_lang_wpdpl.sh"}
\* what format_lm_sri.sh leaves in its output directory
FormattedFiles == LangFiles \cup {"G.fst"}

Absent == [exists |-> FALSE, files |-> {}]
Dir(fs) == [exists |-> TRUE, files |-> fs]
\* what a program that failed half way may have written of S
Partial(S) == { T \in SUBSET S : T # S }

(***************************************************************************)
(* Parameter checks.                                                       *)
(***************************************************************************)
_check_level == level \in {"word", "phone"}
_check_order_nonnegative == order.isInt /\ ~(order.val < 0)
_check_order == order.isInt /\ ~(order.val < 1)
_check_silence_probability ==
    ~(silence_probability > SilOne \/ silence_probability < 0)
_check_position_dependent == level = "word" /\ position_dependent_phones
check_parameters_strict ==
    /\ _check_level /\ _check_order /\ _check_silence_probability
    /\ ~_check_position_dependent
check_parameters == _check_level /\ _check_order /\ _check_silence_probability

\* the script _prepare_lang chooses
script_ignores_level ==
    IF position_dependent_phones
    THEN "prepare_lang_wpdpl.sh" ELSE "utils/prepare_lang.sh"
script ==
    IF level = "phone" /\ position_dependent_phones
    THEN "prepare_lang_wpdpl.sh" ELSE "utils/prepare_lang.sh"

\* the command line of prepare-lang: script, options and directories
NoCommand == [script |-> "none", position_dependent_phones |-> "none",
              sil_prob |-> 0, src |-> "none", tmp |-> "none", lang |-> "none"]
prepare_lang_command ==
    [script |-> script,
     position_dependent_phones |->
         IF position_dependent_phones THEN "true" ELSE "false",
     sil_prob |-> silence_probability,
     src |-> "local",
     tmp |-> "output_dir/local",
     lang |-> "output_dir"]

NoProbe == [done |-> FALSE, G_txt |-> FALSE, G_arpa |-> FALSE, G_fst |-> FALSE]
NoFs == [local |-> {}, output_dir |-> Absent]
NoArgs == [words_only |-> FALSE, phones_only |-> FALSE, post |-> FALSE,
           no_lattice |-> FALSE, recipe |-> FALSE]
NoRecipe == [made |-> FALSE, class |-> "none", level |-> "none",
             with_posteriors |-> FALSE, delete_recipe |-> FALSE]

\* no command has started
InitCommands ==
    /\ level = "word"
    /\ order = [isInt |-> TRUE, val |-> 1]
    /\ silence_probability = 0
    /\ position_dependent_phones = FALSE
    /\ local = {}
    /\ output_dir = Absent
    /\ tmp_dir = Absent
    /\ temp = FALSE
    /\ pc = "start"
    /\ err = "none"
    /\ stages = <<>>
    /\ calls = <<>>
    /\ warned = FALSE
    /\ runNo = 0
    /\ history = <<>>
    /\ probed = NoProbe
    /\ preRun = NoFs
    /\ fmtPre = Absent
    /\ command = NoCommand
    /\ setup = <<>>
    /\ args = NoArgs
    /\ apc = "start"
    /\ recipe = NoRecipe
    /\ recipe_dir = FALSE
    /\ acalls = <<>>
    /\ aerr = "none"

(***************************************************************************)
(* LanguageModel: construction and create().                               *)
(***************************************************************************)
\* __init__ followed by the caller setting the parameters and seeding the
\* local directory with the artifacts it provides
LanguageModel ==
    /\ pc = "start" /\ apc = "start" /\ ppc = "start"
    /\ \E l \in Levels, o \in Orders, s \in SilProbs, p \in BOOLEAN,
          seed \in SUBSET SeedFiles :
          /\ level' = l
          /\ order' = o
          /\ silence_probability' = s
          /\ position_dependent_phones' = p
          /\ local' = seed
    /\ pc' = "new"
    /\ UNCHANGED <<output_dir, tmp_dir, temp, err, stages, calls, warned,
                   runNo, history, probed, preRun, fmtPre, command, setup, alignVars, prepVars>>

\* lines 308-312: the input text of the language model and the phone
\* lexicon, by level
setup_lm_text_phone_lexicon_always ==
    IF level = "word"
    THEN <<"shutil.copy(text, lm_text)", "setup_phone_lexicon">>
    ELSE <<"io.word2phone(lexicon, text, lm_text)", "setup_phone_lexicon">>
setup_lm_text ==
    IF level = "word"
    THEN <<"shutil.copy(text, lm_text)">>
    ELSE <<"io.word2phone(lexicon, text, lm_text)", "setup_phone_lexicon">>

\* the calls of create() after the level check, in order
create_setup ==
    <<"setup_phones", "setup_silences", "setup_variants",
      "desired_utterances", "setup_text", "setup_lexicon">>
    \o setup_lm_text
    \o <<"setup_kaldi_folders", "setup_machine_specific_scripts",
         "_setup_prepare_lang_wpdpl">>

create ==
    /\ pc = "new"
    /\ IF ~_check_level
       THEN /\ err' = "RuntimeError"
            /\ UNCHANGED <<local, output_dir, setup>>
       ELSE /\ err' = "none"
            /\ setup' = create_setup
            /\ local' = local \cup {"lm_text.txt"}
            /\ output_dir' = Dir(output_dir.files \cup ShareFiles)
    /\ pc' = "idle"
    /\ UNCHANGED <<level, order, silence_probability,
                   position_dependent_phones, tmp_dir, temp, stages, calls,
                   warned, runNo, history, probed, preRun, fmtPre, command, alignVars, prepVars>>

(***************************************************************************)
(* LanguageModel.run(): parameter check, prepare-lang, branch selection.   *)
(***************************************************************************)
frameParams == UNCHANGED <<level, order, silence_probability,
                           position_dependent_phones>>

\* the caller calls run() on the instance
run ==
    /\ pc \in {"idle", "returned", "raised"}
    /\ runNo < MaxRuns
    /\ runNo' = runNo + 1
    /\ history' = IF runNo = 0 THEN history
                  ELSE Append(history, [outcome |-> pc, stages |-> stages,
                                        calls |-> calls])
    /\ preRun' = [local |-> local, output_dir |-> output_dir]
    /\ stages' = <<>>
    /\ calls' = <<>>
    /\ warned' = FALSE
    /\ err' = "none"
    /\ probed' = NoProbe
    /\ pc' = "check_parameters"
    /\ command' = NoCommand
    /\ frameParams
    /\ UNCHANGED <<local, output_dir, tmp_dir, temp, fmtPre, setup, alignVars, prepVars>>

run_check_parameters ==
    /\ pc = "check_parameters"
    /\ IF check_parameters
       THEN /\ warned' = _check_position_dependent
            /\ pc' = "_prepare_lang"
            /\ err' = err
       ELSE /\ err' = "RuntimeError"
            /\ pc' = "raised"
            /\ warned' = warned
    /\ frameParams
    /\ UNCHANGED <<local, output_dir, tmp_dir, temp, stages, calls, runNo,
                   history, probed, preRun, fmtPre, command, setup, alignVars, prepVars>>

\* _prepare_lang: the script runs in any case; it fills the lang directory
\* output_dir, or fails having written part of it
_prepare_lang ==
    /\ pc = "_prepare_lang"
    /\ stages' = Append(stages, "_prepare_lang")
    /\ calls' = Append(calls, script)
    /\ \/ /\ output_dir' = Dir(output_dir.files \cup LangFiles)
          /\ pc' = "probe"
          /\ err' = err
       \/ /\ \E part \in Partial(LangFiles) :
                output_dir' = Dir(output_dir.files \cup part)
          /\ pc' = "raised"
          /\ err' = script
    /\ command' = prepare_lang_command
    /\ frameParams
    /\ UNCHANGED <<local, tmp_dir, temp, warned, runNo, history, probed,
                   preRun, fmtPre, setup, alignVars, prepVars>>

\* the stage run() enters after prepare-lang, by the artifacts present
run_branch_txt_ignored ==
    IF "G.arpa.gz" \notin local THEN "_compute_lm" ELSE "_format_lm"
run_branch_arpa_first ==
    IF "G.arpa.gz" \in local THEN "_format_lm"
    ELSE IF "G.txt" \in local THEN "_compile_fst" ELSE "_compute_lm"
run_branch_always_compute ==
    IF "G.txt" \in local THEN "_compile_fst" ELSE "_compute_lm"
run_branch ==
    IF "G.txt" \in local THEN "_compile_fst"
    ELSE IF "G.arpa.gz" \notin local THEN "_compute_lm" ELSE "_format_lm"

\* first statement of each stage method
Entry(stage) ==
    CASE stage = "_compile_fst" -> "fst_temp"
      [] stage = "_compute_lm" -> "lm_text_ready"
      [] stage = "_format_lm" -> "fmt_mkdtemp"

run_probe ==
    /\ pc = "probe"
    /\ probed' = [done |-> TRUE, G_txt |-> "G.txt" \in local,
                  G_arpa |-> "G.arpa.gz" \in local, G_fst |-> "G.fst" \in local]
    /\ stages' = Append(stages, run_branch)
    /\ pc' = Entry(run_branch)
    /\ frameParams
    /\ UNCHANGED <<local, output_dir, tmp_dir, temp, err, calls, warned,
                   runNo, history, preRun, fmtPre, command, setup, alignVars, prepVars>>

\* line 337: _format_lm is called once _compute_lm has returned
run_format_lm ==
    /\ pc = "call_format_lm"
    /\ stages' = Append(stages, "_format_lm")
    /\ pc' = Entry("_format_lm")
    /\ frameParams
    /\ UNCHANGED <<local, output_dir, tmp_dir, temp, err, calls, warned,
                   runNo, history, probed, preRun, fmtPre, command, setup, alignVars, prepVars>>

(***************************************************************************)
(* _compile_fst: no try block, an exception leaves the method at once.     *)
(***************************************************************************)
compile_fst_retry == "fstcompile"
compile_fst_raise == "raised"

\* temp = tempfile.NamedTemporaryFile('w', delete=False)
compile_fst_temp ==
    /\ pc = "fst_temp"
    /\ temp' = TRUE
    /\ pc' = "fstcompile"
    /\ frameParams
    /\ UNCHANGED <<local, output_dir, tmp_dir, err, stages, calls, warned,
                   runNo, history, probed, preRun, fmtPre, command, setup, alignVars, prepVars>>

compile_fst_fstcompile ==
    /\ pc = "fstcompile"
    /\ calls' = Append(calls, "fstcompile")
    /\ \/ pc' = "fstarcsort" /\ err' = err
       \/ pc' = compile_fst_raise /\ err' = "fstcompile"
    /\ frameParams
    /\ UNCHANGED <<local, output_dir, tmp_dir, temp, stages, warned, runNo,
                   history, probed, preRun, fmtPre, command, setup, alignVars, prepVars>>

\* open(G_fst, 'w') creates or truncates G.fst before fstarcsort runs
compile_fst_fstarcsort ==
    /\ pc = "fstarcsort"
    /\ local' = local \cup {"G.fst"}
    /\ calls' = Append(calls, "fstarcsort")
    /\ \/ pc' = "fst_remove" /\ err' = err
       \/ pc' = compile_fst_raise /\ err' = "fstarcsort"
    /\ frameParams
    /\ UNCHANGED <<output_dir, tmp_dir, temp, stages, warned, runNo, history,
                   probed, preRun, fmtPre, command, setup, alignVars, prepVars>>

\* utils.remove(temp.name), then the method returns
compile_fst_remove ==
    /\ pc = "fst_remove"
    /\ temp' = FALSE
    /\ pc' = "returned"
    /\ frameParams
    /\ UNCHANGED <<local, output_dir, tmp_dir, err, stages, calls, warned,
                   runNo, history, probed, preRun, fmtPre, command, setup, alignVars, prepVars>>

(***************************************************************************)
(* _compute_lm: every step is inside try ... finally.                      *)
(***************************************************************************)
compute_lm_raise == "lm_finally"

\* with open(text_ready, 'w'): the file is created, then lm_text is read
compute_lm_text_ready ==
    /\ pc = "lm_text_ready"
    /\ local' = local \cup {"text_ready.txt"}
    /\ \/ /\ "lm_text.txt" \in local
          /\ pc' = "add_start_end" /\ err' = err
       \/ pc' = compute_lm_raise /\ err' = "IOError"
    /\ frameParams
    /\ UNCHANGED <<output_dir, tmp_dir, temp, stages, calls, warned, runNo,
                   history, probed, preRun, fmtPre, command, setup, alignVars, prepVars>>

\* stdout=open(text_se, 'w').write creates text_se before the program runs
compute_lm_add_start_end ==
    /\ pc = "add_start_end"
    /\ local' = local \cup {"text_se.txt"}
    /\ calls' = Append(calls, "add-start-end.sh")
    /\ \/ pc' = "build_lm" /\ err' = err
       \/ pc' = compute_lm_raise /\ err' = "add-start-end.sh"
    /\ frameParams
    /\ UNCHANGED <<output_dir, tmp_dir, temp, stages, warned, runNo, history,
                   probed, preRun, fmtPre, command, setup, alignVars, prepVars>>

\* build-lm.sh writes text_lm.gz; when it fails the file may be there or not
compute_lm_build_lm ==
    /\ pc = "build_lm"
    /\ calls' = Append(calls, "build-lm.sh")
    /\ \/ /\ local' = local \cup {"text_lm.gz"}
          /\ pc' = "compile_lm" /\ err' = err
       \/ /\ \E part \in SUBSET {"text_lm.gz"} : local' = local \cup part
          /\ pc' = compute_lm_raise /\ err' = "build-lm.sh"
    /\ frameParams
    /\ UNCHANGED <<output_dir, tmp_dir, temp, stages, warned, runNo, history,
                   probed, preRun, fmtPre, command, setup, alignVars, prepVars>>

compute_lm_compile_lm ==
    /\ pc = "compile_lm"
    /\ calls' = Append(calls, "compile-lm")
    /\ \/ /\ local' = local \cup {"text_blm.gz"}
          /\ pc' = "gzip" /\ err' = err
       \/ /\ \E part \in SUBSET {"text_blm.gz"} : local' = local \cup part
          /\ pc' = compute_lm_raise /\ err' = "compile-lm"
    /\ frameParams
    /\ UNCHANGED <<output_dir, tmp_dir, temp, stages, warned, runNo, history,
                   probed, preRun, fmtPre, command, setup, alignVars, prepVars>>

\* open(text_blm, 'rb') and gzip.open(G_arpa, 'wb'), then the copy: a failure
\* of the first open leaves no G.arpa.gz, a failure of the copy leaves one
compute_lm_gzip ==
    /\ pc = "gzip"
    /\ \/ /\ local' = local \cup {"G.arpa.gz"}
          /\ pc' = "lm_finally" /\ err' = err
       \/ /\ \E part \in SUBSET {"G.arpa.gz"} : local' = local \cup part
          /\ pc' = compute_lm_raise /\ err' = "IOError"
    /\ frameParams
    /\ UNCHANGED <<output_dir, tmp_dir, temp, stages, calls, warned, runNo,
                   history, probed, preRun, fmtPre, command, setup, alignVars, prepVars>>

\* finally: utils.remove(f, safe=True) for the four temporary files
compute_lm_cleanup_all == local \ (TempFiles \cup {"G.arpa.gz"})
compute_lm_cleanup_on_success == IF err = "none" THEN local \ TempFiles ELSE local
compute_lm_cleanup_with_input == local \ (TempFiles \cup {"lm_text.txt"})
compute_lm_cleanup == local \ TempFiles

compute_lm_finally_swallow ==
    /\ pc = "lm_finally"
    /\ local' = compute_lm_cleanup
    /\ pc' = "call_format_lm"
    /\ frameParams
    /\ UNCHANGED <<output_dir, tmp_dir, temp, err, stages, calls, warned,
                   runNo, history, probed, preRun, fmtPre, command, setup, alignVars, prepVars>>

compute_lm_finally ==
    /\ pc = "lm_finally"
    /\ local' = compute_lm_cleanup
    /\ pc' = IF err = "none" THEN "call_format_lm" ELSE "raised"
    /\ frameParams
    /\ UNCHANGED <<output_dir, tmp_dir, temp, err, stages, calls, warned,
                   runNo, history, probed, preRun, fmtPre, command, setup, alignVars, prepVars>>

(***************************************************************************)
(* _format_lm: mkdtemp, then try ... finally.                              *)
(***************************************************************************)
format_lm_raise == "fmt_finally"

\* tmp_dir = tempfile.mkdtemp()
format_lm_mkdtemp ==
    /\ pc = "fmt_mkdtemp"
    /\ tmp_dir' = Dir({})
    /\ fmtPre' = output_dir
    /\ pc' = "format_lm_sri"
    /\ frameParams
    /\ UNCHANGED <<local, output_dir, temp, err, stages, calls, warned, runNo,
                   history, probed, preRun, command, setup, alignVars, prepVars>>

\* utils/format_lm_sri.sh output_dir G_arpa tmp_dir
format_lm_sri ==
    /\ pc = "format_lm_sri"
    /\ calls' = Append(calls, "utils/format_lm_sri.sh")
    /\ \/ /\ tmp_dir' = Dir(FormattedFiles)
          /\ pc' = "fmt_remove" /\ err' = err
       \/ /\ \E part \in Partial(FormattedFiles) : tmp_dir' = Dir(part)
          /\ pc' = format_lm_raise /\ err' = "utils/format_lm_sri.sh"
    /\ frameParams
    /\ UNCHANGED <<local, output_dir, temp, stages, warned, runNo, history,
                   probed, preRun, fmtPre, command, setup, alignVars, prepVars>>

\* utils.remove(self.output_dir): raises on a path that does not exist
format_lm_remove ==
    /\ pc = "fmt_remove"
    /\ IF output_dir.exists
       THEN /\ output_dir' = Absent
            /\ pc' = "fmt_move" /\ err' = err
       ELSE /\ output_dir' = output_dir
            /\ pc' = format_lm_raise /\ err' = "OSError"
    /\ frameParams
    /\ UNCHANGED <<local, tmp_dir, temp, stages, calls, warned, runNo,
                   history, probed, preRun, fmtPre, command, setup, alignVars, prepVars>>

\* shutil.move(tmp_dir, self.output_dir)
format_lm_move ==
    /\ pc = "fmt_move"
    /\ output_dir' = tmp_dir
    /\ tmp_dir' = Absent
    /\ pc' = "fmt_finally"
    /\ frameParams
    /\ UNCHANGED <<local, temp, err, stages, calls, warned, runNo, history,
                   probed, preRun, fmtPre, command, setup, alignVars, prepVars>>

\* utils.remove(self.output_dir) fails: rmtree raises, having deleted any
\* part of the directory
format_lm_remove_fails ==
    /\ pc = "fmt_remove"
    /\ output_dir.exists
    /\ \E rest \in SUBSET output_dir.files : output_dir' = Dir(rest)
    /\ pc' = format_lm_raise /\ err' = "OSError"
    /\ frameParams
    /\ UNCHANGED <<local, tmp_dir, temp, stages, calls, warned, runNo,
                   history, probed, preRun, fmtPre, command, setup, alignVars, prepVars>>

\* shutil.move(tmp_dir, self.output_dir) fails: nothing was moved, or the
\* copy to another file system stopped half way; tmp_dir is still there
format_lm_move_fails ==
    /\ pc = "fmt_move"
    /\ \/ output_dir' = output_dir
       \/ \E part \in Partial(tmp_dir.files) : output_dir' = Dir(part)
    /\ pc' = format_lm_raise /\ err' = "shutil.Error"
    /\ frameParams
    /\ UNCHANGED <<local, tmp_dir, temp, stages, calls, warned, runNo,
                   history, probed, preRun, fmtPre, command, setup, alignVars, prepVars>>

\* finally: utils.remove(tmp_dir, safe=True), then the log files are reopened
format_lm_cleanup_kept == tmp_dir
format_lm_cleanup == Absent

format_lm_finally ==
    /\ pc = "fmt_finally"
    /\ tmp_dir' = format_lm_cleanup
    /\ pc' = IF err = "none" THEN "returned" ELSE "raised"
    /\ frameParams
    /\ UNCHANGED <<local, output_dir, temp, err, stages, calls, warned, runNo,
                   history, probed, preRun, fmtPre, command, setup, alignVars, prepVars>>

(***************************************************************************)
(* AbkhaziaAlign.run(args)                                                 *)
(***************************************************************************)
\* argument sets the parser lets through: --post/--no-lattice and
\* --phones-only/--words-only are mutually exclusive groups
Args ==
    { a \in [words_only : BOOLEAN, phones_only : BOOLEAN, post : BOOLEAN,
             no_lattice : BOOLEAN, recipe : BOOLEAN] :
        /\ ~(a.post /\ a.no_lattice)
        /\ ~(a.phones_only /\ a.words_only) }

\* the alignment level parsed from the options
AlignLevel(a) ==
    IF a.words_only THEN "words"
    ELSE IF a.phones_only THEN "phones" ELSE "both"

\* recipe.delete_recipe = False if args.recipe else True
delete_recipe_always(a) == TRUE
delete_recipe(a) == IF a.recipe THEN FALSE ELSE TRUE

\* level == 'words' and args.post: the options that cannot be combined
incompatible_phones(a) == AlignLevel(a) = "phones" /\ a.post
incompatible(a) == AlignLevel(a) = "words" /\ a.post

align_run ==
    /\ apc = "start" /\ pc = "start" /\ ppc = "start"
    /\ \E a \in Args : args' = a
    /\ apc' = "level"
    /\ UNCHANGED <<prepVars, lmVars, recipe, recipe_dir, acalls, aerr>>

align_level ==
    /\ apc = "level"
    /\ IF incompatible(args)
       THEN apc' = "raised" /\ aerr' = "NotImplementedError"
       ELSE apc' = "instantiate" /\ aerr' = aerr
    /\ UNCHANGED <<prepVars, lmVars, args, recipe, recipe_dir, acalls>>

\* the recipe is instantiated (its temporary recipe_dir is allocated) and
\* its attributes are set
align_instantiate ==
    /\ apc = "instantiate"
    /\ recipe' = [made |-> TRUE,
                  class |-> IF args.no_lattice THEN "AlignNoLattice"
                            ELSE "Align",
                  level |-> AlignLevel(args),
                  with_posteriors |-> args.post,
                  delete_recipe |-> delete_recipe(args)]
    /\ recipe_dir' = TRUE
    /\ apc' = "create"
    /\ UNCHANGED <<prepVars, lmVars, args, acalls, aerr>>

\* a recipe method returns or raises
RecipeCall_goes_on(method, next) ==
    /\ acalls' = Append(acalls, method)
    /\ \/ apc' = next /\ aerr' = aerr
       \/ apc' = next /\ aerr' = method
    /\ UNCHANGED <<prepVars, lmVars, args, recipe, recipe_dir>>

RecipeCall(method, next) ==
    /\ acalls' = Append(acalls, method)
    /\ \/ apc' = next /\ aerr' = aerr
       \/ apc' = "teardown" /\ aerr' = method
    /\ UNCHANGED <<prepVars, lmVars, args, recipe, recipe_dir>>

align_create == apc = "create" /\ RecipeCall("create", "run")
align_recipe_run == apc = "run" /\ RecipeCall("run", "export")
align_export == apc = "export" /\ RecipeCall("export", "teardown")

\* the recipe object is released: AbstractTmpRecipe deletes recipe_dir
\* unless the recipe is to be kept
Teardown ==
    /\ apc = "teardown"
    /\ recipe_dir' = IF recipe.delete_recipe THEN FALSE ELSE recipe_dir
    /\ apc' = IF aerr = "none" THEN "returned" ELSE "raised"
    /\ UNCHANGED <<prepVars, lmVars, args, recipe, acalls, aerr>>

(***************************************************************************)
(* AICPreparator.make_lexicon (abkhazia/prepare/aic_preparator.py).        *)
(* Text is a TLA+ string and a file is the sequence of its lines, each     *)
(* with its final "\n", as iterating over an open file yields them.        *)
(***************************************************************************)
NoFile == [exists |-> FALSE, lines |-> <<>>]
File(lines) == [exists |-> TRUE, lines |-> lines]

Char(s, i) == IF i \in 1..Len(s) THEN SubSeq(s, i, i) ELSE ""
From(s, i) == SubSeq(s, i, Len(s))
Min(S) == CHOOSE x \in S : \A y \in S : x <= y
Max(S) == CHOOSE x \in S : \A y \in S : x >= y
Positions(s, chars) == { i \in 1..Len(s) : SubSeq(s, i, i) \in chars }
IndexOf(c, alphabet) == CHOOSE i \in 1..Len(alphabet) : Char(alphabet, i) = c

\* the characters \s matches and split() splits on, among those of the files
whitespace == {" ", "\t", "\n"}
ascii_uppercase == "ABCDEFGHIJKLMNOPQRSTUVWXYZ"
ascii_lowercase == "abcdefghijklmnopqrstuvwxyz"
digits == "0123456789"
digit == { Char(digits, i) : i \in 1..10 }

\* str.replace(old, new): the occurrences of old, left to right, none
\* overlapping another
find(s, old) ==
    { i \in 1..(Len(s) - Len(old) + 1) : SubSeq(s, i, i + Len(old) - 1) = old }
RECURSIVE replace(_, _, _)
replace(s, old, new) ==
    IF find(s, old) = {} THEN s
    ELSE SubSeq(s, 1, Min(find(s, old)) - 1) \o new
         \o replace(From(s, Min(find(s, old)) + Len(old)), old, new)

\* str.upper() and str.lower(): the letters change case, every other
\* character stays
to_upper == [c \in { Char(ascii_lowercase, i) : i \in 1..26 } |->
                Char(ascii_uppercase, IndexOf(c, ascii_lowercase))]
to_lower == [c \in { Char(ascii_uppercase, i) : i \in 1..26 } |->
                Char(ascii_lowercase, IndexOf(c, ascii_uppercase))]
RECURSIVE translate(_, _)
translate(s, table) ==
    IF s = "" THEN ""
    ELSE (IF Char(s, 1) \in DOMAIN table THEN table[Char(s, 1)] ELSE Char(s, 1))
         \o translate(From(s, 2), table)
upper(s) == translate(s, to_upper)
lower(s) == translate(s, to_lower)

\* str.split(): the maximal runs of characters that are not whitespace
word_end(s) == Min(Positions(s, whitespace) \cup {Len(s) + 1}) - 1
RECURSIVE split(_)
split(s) ==
    IF s = "" THEN <<>>
    ELSE IF Char(s, 1) \in whitespace THEN split(From(s, 2))
    ELSE <<SubSeq(s, 1, word_end(s))>> \o split(From(s, word_end(s) + 1))

\* str.split(sep) for a separator of one character
RECURSIVE split_on(_, _)
split_on(s, sep) ==
    IF Positions(s, {sep}) = {} THEN <<s>>
    ELSE <<SubSeq(s, 1, Min(Positions(s, {sep})) - 1)>>
         \o split_on(From(s, Min(Positions(s, {sep})) + 1), sep)

\* str.strip()
RECURSIVE strip(_)
strip(s) ==
    IF s = "" THEN ""
    ELSE IF Char(s, 1) \in whitespace THEN strip(From(s, 2))
    ELSE IF Char(s, Len(s)) \in whitespace THEN strip(SubSeq(s, 1, Len(s) - 1))
    ELSE s

\* str(n) for n >= 0: the decimal digits of n
RECURSIVE str(_)
str(n) ==
    IF n < 10 THEN Char(digits, n + 1)
    ELSE str(n \div 10) \o Char(digits, (n % 10) + 1)

\* int(s): spaces around and a sign are accepted, then decimal digits only;
\* anything else raises ValueError
unsigned(s) ==
    IF Char(strip(s), 1) \in {"+", "-"} THEN From(strip(s), 2) ELSE strip(s)
is_int(s) ==
    /\ unsigned(s) # ""
    /\ Positions(unsigned(s), digit) = 1..Len(unsigned(s))
RECURSIVE natural(_)
natural(s) ==
    IF s = "" THEN 0
    ELSE 10 * natural(SubSeq(s, 1, Len(s) - 1))
         + (IndexOf(Char(s, Len(s)), digits) - 1)
int(s) ==
    IF Char(strip(s), 1) = "-" THEN 0 - natural(unsigned(s))
    ELSE natural(unsigned(s))

\* what ".*" takes of s: "." matches every character but the newline
dot_star(s) ==
    IF Positions(s, {"\n"}) = {} THEN s
    ELSE SubSeq(s, 1, Min(Positions(s, {"\n"})) - 1)

NoMatch == [matched |-> FALSE]

\* re.match(r"(.*)\s\s(.*)", line): the first group is greedy, it ends at
\* the last pair of whitespace characters of the line
dictionary(line) ==
    LET at == { i \in 1..Len(line) :
                  /\ Char(line, i) \in whitespace
                  /\ Char(line, i + 1) \in whitespace
                  /\ dot_star(line) = line \/ i <= Len(dot_star(line)) + 1 }
    IN  IF at = {} THEN NoMatch
        ELSE [matched |-> TRUE,
              group1 |-> SubSeq(line, 1, Max(at) - 1),
              group2 |-> dot_star(From(line, Max(at) + 2))]

\* re.match(r"([fm0-9]+)_([ps])_(.*?)\s(.*)", line): the third group is
\* not greedy, it ends at the first whitespace character after the prefix
matched_transcription(line) ==
    LET prefix == Min({ i \in 1..(Len(line) + 1) :
                          Char(line, i) \notin {"f", "m"} \cup digit }) - 1
        at == { i \in Positions(line, whitespace) : i >= prefix + 4 }
    IN  IF /\ prefix >= 1
           /\ Char(line, prefix + 1) = "_"
           /\ Char(line, prefix + 2) \in {"p", "s"}
           /\ Char(line, prefix + 3) = "_"
           /\ at # {}
        THEN [matched |-> TRUE,
              group1 |-> SubSeq(line, 1, prefix),
              group2 |-> Char(line, prefix + 2),
              group3 |-> SubSeq(line, prefix + 4, Min(at) - 1),
              group4 |-> dot_star(From(line, Min(at) + 1))]
        ELSE NoMatch

\* re.match(r'(.*?)\s(.*)', line): the first group is not greedy, it ends
\* at the first whitespace character of the line
matched_lexicon(line) ==
    LET at == Positions(line, whitespace)
    IN  IF at = {} THEN NoMatch
        ELSE [matched |-> TRUE,
              group1 |-> SubSeq(line, 1, Min(at) - 1),
              group2 |-> dot_star(From(line, Min(at) + 1))]

\* re.match("(.*)\t(.*)", line): the first group is greedy, it ends at the
\* last tab of the line
matched_oov(line) ==
    LET at == { i \in Positions(line, {"\t"}) : i <= Len(dot_star(line)) }
    IN  IF at = {} THEN NoMatch
        ELSE [matched |-> TRUE,
              group1 |-> SubSeq(line, 1, Max(at) - 1),
              group2 |-> dot_star(From(line, Max(at) + 1))]

(***************************************************************************)
(* The CMU to AIC symbol table of make_lexicon_aux.                        *)
(***************************************************************************)
\* the phn_trs.replace(old, new) statements, in the order of the code
Replacements_short_first ==
    <<<<"D", "d">>, <<"B", "b">>, <<"F", "f">>, <<"G", "g">>,
       <<"K", "k">>, <<"L", "l">>, <<"M", "m">>, <<"N", "n">>,
       <<"P", "p">>, <<"R", "r">>, <<"S", "s">>, <<"T", "t">>,
       <<"V", "v">>, <<"W", "w">>, <<"Y", "y">>, <<"Z", "z">>,
       <<"AA", "a">>, <<"AE", "xq">>, <<"AH", "xa">>, <<"AO", "c">>,
       <<"AW", "xw">>, <<"AY", "xy">>, <<"DH", "xd">>, <<"EH", "xe">>,
       <<"ER", "xr">>, <<"EY", "e">>, <<"CH", "xc">>, <<"HH", "h">>,
       <<"IH", "xi">>, <<"IY", "i">>, <<"JH", "xj">>, <<"NG", "xg">>,
       <<"OW", "o">>, <<"OY", "xo">>, <<"SH", "xs">>, <<"TH", "xt">>,
       <<"UH", "xu">>, <<"UW", "u">>, <<"ZH", "xz">>>>
Replacements_collide ==
    <<<<"AA", "a">>, <<"AE", "xq">>, <<"AH", "xa">>, <<"AO", "a">>,
       <<"AW", "xw">>, <<"AY", "xy">>, <<"DH", "xd">>, <<"EH", "xe">>,
       <<"ER", "xr">>, <<"EY", "e">>, <<"CH", "xc">>, <<"HH", "h">>,
       <<"IH", "xi">>, <<"IY", "i">>, <<"JH", "xj">>, <<"NG", "xg">>,
       <<"OW", "o">>, <<"OY", "xo">>, <<"SH", "xs">>, <<"TH", "xt">>,
       <<"UH", "xu">>, <<"UW", "u">>, <<"ZH", "xz">>, <<"D", "d">>,
       <<"B", "b">>, <<"F", "f">>, <<"G", "g">>, <<"K", "k">>,
       <<"L", "l">>, <<"M", "m">>, <<"N", "n">>, <<"P", "p">>,
       <<"R", "r">>, <<"S", "s">>, <<"T", "t">>, <<"V", "v">>,
       <<"W", "w">>, <<"Y", "y">>, <<"Z", "z">>>>
Replacements ==
    <<<<"AA", "a">>, <<"AE", "xq">>, <<"AH", "xa">>, <<"AO", "c">>,
       <<"AW", "xw">>, <<"AY", "xy">>, <<"DH", "xd">>, <<"EH", "xe">>,
       <<"ER", "xr">>, <<"EY", "e">>, <<"CH", "xc">>, <<"HH", "h">>,
       <<"IH", "xi">>, <<"IY", "i">>, <<"JH", "xj">>, <<"NG", "xg">>,
       <<"OW", "o">>, <<"OY", "xo">>, <<"SH", "xs">>, <<"TH", "xt">>,
       <<"UH", "xu">>, <<"UW", "u">>, <<"ZH", "xz">>, <<"D", "d">>,
       <<"B", "b">>, <<"F", "f">>, <<"G", "g">>, <<"K", "k">>,
       <<"L", "l">>, <<"M", "m">>, <<"N", "n">>, <<"P", "p">>,
       <<"R", "r">>, <<"S", "s">>, <<"T", "t">>, <<"V", "v">>,
       <<"W", "w">>, <<"Y", "y">>, <<"Z", "z">>>>

\* the CMU phone codes
Codes == { Replacements[i][1] : i \in DOMAIN Replacements }

\* the table read the other way, AIC to CMU, its two-letter symbols first
InverseTable ==
    LET back == [i \in DOMAIN Replacements |->
                    <<Replacements[i][2], Replacements[i][1]>>]
    IN  SelectSeq(back, LAMBDA p : Len(p[1]) = 2)
        \o SelectSeq(back, LAMBDA p : Len(p[1]) = 1)

\* one str.replace after the other, through the table from entry i on
RECURSIVE replace_each(_, _, _)
replace_each(s, table, i) ==
    IF s = "" \/ i > Len(table) THEN s
    ELSE replace_each(replace(s, table[i][1], table[i][2]), table, i + 1)

\* convert the CMU symbols to AIC symbols
cmu_to_aic_from_second(s) == replace_each(s, Replacements, 2)
cmu_to_aic(s) == replace_each(s, Replacements, 1)
\* and back, with the inverse table
aic_to_cmu(s) == replace_each(s, InverseTable, 1)

\* ' '.join(words)
RECURSIVE join(_)
join(words) ==
    IF words = <<>> THEN ""
    ELSE IF Len(words) = 1 THEN words[1]
    ELSE words[1] \o " " \o join(Tail(words))

(***************************************************************************)
(* temp_cmu_lexicon.                                                       *)
(***************************************************************************)
\* remove pronunciation variants: the digits 0, 1 and 2
remove_variants(phn) == replace(replace(replace(phn, "0", ""), "1", ""), "2", "")

\* cmu_dict[entry] = phn for every line of the CMU dictionary that matches;
\* a later line replaces an earlier one with the same entry
cmu_dict_of(lines) ==
    LET parsed == [i \in DOMAIN lines |-> dictionary(lines[i])]
        hits == { i \in DOMAIN lines : parsed[i].matched }
        entries == { parsed[i].group1 : i \in hits }
        last(e) == Max({ i \in hits : parsed[i].group1 = e })
    IN  [e \in entries |-> remove_variants(parsed[last(e)].group2)]

\* the words one line of the transcription adds to dict_word
transcription_words_any_line(line) ==
    LET matched == matched_transcription(line)
    IN  IF matched.matched THEN split(upper(matched.group4))
        ELSE split(upper(line))
transcription_words(line) ==
    LET matched == matched_transcription(line)
    IN  IF matched.matched THEN split(upper(matched.group4))
        ELSE <<>>

RECURSIVE all_words(_)
all_words(lines) ==
    IF lines = <<>> THEN <<>>
    ELSE transcription_words(Head(lines)) \o all_words(Tail(lines))

\* dict_word[word]: how many times the word occurs in the transcription
dict_word_of(lines) ==
    LET words == all_words(lines)
    IN  [w \in Range(words) |->
            Cardinality({ k \in DOMAIN words : words[k] = w })]

\* sorted(dict_word.items(), key=lambda kv: kv[1], reverse=True): the words
\* by descending frequency; words of the same frequency come in the order
\* of the dict, which is any order
sorted(dict_word) ==
    { s \in [1..Cardinality(DOMAIN dict_word) -> DOMAIN dict_word] :
        /\ \A i, j \in DOMAIN s : i # j => s[i] # s[j]
        /\ \A i, j \in DOMAIN s : i < j => dict_word[s[i]] >= dict_word[s[j]] }

\* the two files temp_cmu_lexicon writes when it goes through the words in
\* the given order
temp_files(ranked, cmu_dict_, dict_word) ==
    LET known == SelectSeq(ranked, LAMBDA w : w \in DOMAIN cmu_dict_)
        unknown == SelectSeq(ranked, LAMBDA w : w \notin DOMAIN cmu_dict_)
    IN  [temp_lex |-> [i \in DOMAIN known |->
                          known[i] \o " " \o cmu_dict_[known[i]] \o "\n"],
         oov |-> [i \in DOMAIN unknown |->
                     unknown[i] \o "\t" \o str(dict_word[unknown[i]]) \o "\n"]]

\* every pair of files temp_cmu_lexicon can write from the two input files
temp_cmu_lexicon_of(cmu_lines, transcription_lines) ==
    LET cmu_dict_ == cmu_dict_of(cmu_lines)
        dict_word == dict_word_of(transcription_lines)
    IN  { temp_files(ranked, cmu_dict_, dict_word) : ranked \in sorted(dict_word) }

(***************************************************************************)
(* make_lexicon_aux.                                                       *)
(***************************************************************************)
\* the lines one line of the temp lexicon adds to the lexicon
lexicon_entry(line) ==
    LET matched == matched_lexicon(line)
    IN  IF matched.matched
        THEN <<lower(matched.group1) \o " " \o cmu_to_aic(matched.group2) \o "\n">>
        ELSE <<>>

RECURSIVE lexicon_entries(_)
lexicon_entries(lines) ==
    IF lines = <<>> THEN <<>>
    ELSE lexicon_entry(Head(lines)) \o lexicon_entries(Tail(lines))

\* discard the OOV with freq 1
oov_keep_all(freq) == freq >= 1
oov_keep(freq) == freq > 1

\* sound, then ' ' + phn for every phn of sound.split(":"), then '\n'
RECURSIVE spaced(_)
spaced(array_phn) ==
    IF array_phn = <<>> THEN ""
    ELSE " " \o Head(array_phn) \o spaced(Tail(array_phn))
sound_entry(sound) == sound \o spaced(split_on(sound, ":")) \o "\n"

\* what one line of the OOV file does: nothing, an entry written, or the
\* exception of int()
oov_entry(line) ==
    LET matched == matched_oov(line)
    IN  IF ~matched.matched THEN [written |-> <<>>, err |-> "none"]
        ELSE IF ~is_int(matched.group2)
             THEN [written |-> <<>>, err |-> "ValueError"]
        ELSE IF oov_keep(int(matched.group2))
             THEN [written |-> <<sound_entry(lower(matched.group1))>>,
                   err |-> "none"]
        ELSE [written |-> <<>>, err |-> "none"]

\* the OOV loop from a given line on: the lines written and the exception
\* that stopped the loop, if any
RECURSIVE oov_entries(_)
oov_entries(lines) ==
    IF lines = <<>> THEN [written |-> <<>>, err |-> "none"]
    ELSE LET first == oov_entry(Head(lines))
             rest == oov_entries(Tail(lines))
         IN  IF first.err # "none" THEN first
             ELSE [written |-> first.written \o rest.written, err |-> rest.err]

\* the lexicon make_lexicon_aux writes from the two temp files
make_lexicon_aux_of(temp_lex_lines, oov_lines) ==
    LET sounds == oov_entries(oov_lines)
    IN  [lexicon |-> lexicon_entries(temp_lex_lines) \o sounds.written,
         err |-> sounds.err]

(***************************************************************************)
(* Input files of the preparator.                                          *)
(***************************************************************************)
SeqsUpTo(S, n) == UNION { [1..k -> S] : k \in 0..n }

\* lines of a CMU dictionary: two entries and a line with a single space
DictionaryLines == {"HI  HH AY1\n", "SHE  SH IY0\n", "HI HH AY1\n"}
\* lines of the transcription: three utterances and a line without an
\* utterance id
TranscriptionLines ==
    {"f01_p_1 hi she\n", "m2_s_2 z:u z:u hi\n", "f3_s_1 z:u\n", "z:u hi\n"}

CmuDicts == SeqsUpTo(DictionaryLines, MaxDictLines)
Transcriptions == SeqsUpTo(TranscriptionLines, MaxTrsLines)
\* pronunciations: up to MaxPhones codes separated by spaces
PhoneSeqs == UNION { [1..k -> Codes] : k \in 1..MaxPhones }

(***************************************************************************)
(* make_lexicon, one action per call and for the final removals.           *)
(***************************************************************************)
remapVars == <<phones, phn_trs, aic_trs, cmu_trs>>

\* make_lexicon is called with the CMU dictionary and the transcription in
\* place
make_lexicon ==
    /\ ppc = "start" /\ pc = "start" /\ apc = "start"
    /\ \E c \in CmuDicts, t \in Transcriptions :
          /\ cmu_dict' = c
          /\ transcription_file' = t
    /\ ppc' = "temp_cmu_lexicon"
    /\ UNCHANGED <<temp_lex, oov, lexicon_file, perr, remapVars,
                   lmVars, alignVars>>

temp_cmu_lexicon ==
    /\ ppc = "temp_cmu_lexicon"
    /\ \E out \in temp_cmu_lexicon_of(cmu_dict, transcription_file) :
          /\ temp_lex' = File(out.temp_lex)
          /\ oov' = File(out.oov)
    /\ ppc' = "make_lexicon_aux"
    /\ UNCHANGED <<cmu_dict, transcription_file, lexicon_file, perr,
                   remapVars, lmVars, alignVars>>

make_lexicon_aux ==
    /\ ppc = "make_lexicon_aux"
    /\ LET out == make_lexicon_aux_of(temp_lex.lines, oov.lines)
       IN  /\ lexicon_file' = File(out.lexicon)
           /\ IF out.err = "none"
              THEN ppc' = "remove" /\ perr' = perr
              ELSE ppc' = "raised" /\ perr' = out.err
    /\ UNCHANGED <<cmu_dict, transcription_file, temp_lex, oov, remapVars,
                   lmVars, alignVars>>

\* os.remove(temp_lex); os.remove(oov)
make_lexicon_remove ==
    /\ ppc = "remove"
    /\ temp_lex' = NoFile
    /\ oov' = NoFile
    /\ ppc' = "returned"
    /\ UNCHANGED <<cmu_dict, transcription_file, lexicon_file, perr,
                   remapVars, lmVars, alignVars>>

(***************************************************************************)
(* The symbol conversion on its own, applied to a drawn pronunciation.     *)
(***************************************************************************)
remap ==
    /\ ppc = "remap"
    /\ aic_trs' = cmu_to_aic(phn_trs)
    /\ ppc' = "unmap"
    /\ UNCHANGED <<phones, phn_trs, cmu_trs, cmu_dict, transcription_file,
                   temp_lex, oov, lexicon_file, perr, lmVars, alignVars>>

unmap ==
    /\ ppc = "unmap"
    /\ cmu_trs' = aic_to_cmu(aic_trs)
    /\ ppc' = "remapped"
    /\ UNCHANGED <<phones, phn_trs, aic_trs, cmu_dict, transcription_file,
                   temp_lex, oov, lexicon_file, perr, lmVars, alignVars>>

(***************************************************************************)
(* Specifications.                                                         *)
(***************************************************************************)
LanguageNext ==
    \/ LanguageModel
    \/ create
    \/ run
    \/ run_check_parameters
    \/ _prepare_lang
    \/ run_probe
    \/ run_format_lm
    \/ compile_fst_temp
    \/ compile_fst_fstcompile
    \/ compile_fst_fstarcsort
    \/ compile_fst_remove
    \/ compute_lm_text_ready
    \/ compute_lm_add_start_end
    \/ compute_lm_build_lm
    \/ compute_lm_compile_lm
    \/ compute_lm_gzip
    \/ compute_lm_finally
    \/ format_lm_mkdtemp
    \/ format_lm_sri
    \/ format_lm_remove
    \/ format_lm_move
    \/ format_lm_finally

AlignNext ==
    \/ align_run
    \/ align_level
    \/ align_instantiate
    \/ align_create
    \/ align_recipe_run
    \/ align_export
    \/ Teardown

PrepareNext ==
    \/ make_lexicon
    \/ temp_cmu_lexicon
    \/ make_lexicon_aux
    \/ make_lexicon_remove

Next == LanguageNext \/ AlignNext \/ PrepareNext

\* the files of the preparator before make_lexicon
InitFiles ==
    /\ cmu_dict = <<>>
    /\ transcription_file = <<>>
    /\ temp_lex = NoFile
    /\ oov = NoFile
    /\ lexicon_file = NoFile
    /\ perr = "none"

Init ==
    /\ InitCommands
    /\ InitFiles
    /\ ppc = "start"
    /\ phones = <<>>
    /\ phn_trs = ""
    /\ aic_trs = ""
    /\ cmu_trs = ""

Spec == Init /\ [][Next]_vars

\* the symbol conversion applied to every pronunciation of up to MaxPhones
\* codes
RemapInit ==
    /\ InitCommands
    /\ InitFiles
    /\ ppc = "remap"
    /\ phones \in PhoneSeqs
    /\ phn_trs = join(phones)
    /\ aic_trs = ""
    /\ cmu_trs = ""

RemapNext == remap \/ unmap

RemapSpec == RemapInit /\ [][RemapNext]_vars

\* utils.remove(temp.name) fails: the call is not safe=True, the error leaves
\* _compile_fst
compile_fst_remove_fails ==
    /\ pc = "fst_remove"
    /\ err' = "OSError"
    /\ pc' = "raised"
    /\ frameParams
    /\ UNCHANGED <<local, output_dir, tmp_dir, temp, stages, calls, warned,
                   runNo, history, probed, preRun, fmtPre, command, setup, alignVars, prepVars>>

\* finally of _compute_lm: some of the utils.remove(f, safe=True) calls fail
\* and the files stay; safe=True keeps the error inside utils.remove
compute_lm_finally_remove_fails ==
    /\ pc = "lm_finally"
    /\ \E kept \in SUBSET (local \cap TempFiles) :
          /\ kept # {}
          /\ local' = compute_lm_cleanup \cup kept
    /\ pc' = IF err = "none" THEN "call_format_lm" ELSE "raised"
    /\ frameParams
    /\ UNCHANGED <<output_dir, tmp_dir, temp, err, stages, calls, warned,
                   runNo, history, probed, preRun, fmtPre, command, setup, alignVars, prepVars>>

\* finally of _format_lm: utils.remove(tmp_dir, safe=True) fails, having
\* deleted any part of the directory
format_lm_finally_remove_fails ==
    /\ pc = "fmt_finally"
    /\ tmp_dir.exists
    /\ \E rest \in SUBSET tmp_dir.files : tmp_dir' = Dir(rest)
    /\ pc' = IF err = "none" THEN "returned" ELSE "raised"
    /\ frameParams
    /\ UNCHANGED <<local, output_dir, temp, err, stages, calls, warned, runNo,
                   history, probed, preRun, fmtPre, command, setup, alignVars, prepVars>>

\* the file system may refuse the two steps of the swap of _format_lm and
\* the removal of a temporary file or directory
FaultNext ==
    \/ format_lm_remove_fails
    \/ format_lm_move_fails
    \/ compile_fst_remove_fails
    \/ compute_lm_finally_remove_fails
    \/ format_lm_finally_remove_fails

FaultSpec == Init /\ [][Next \/ FaultNext]_vars

\* the align command is sequential code: it keeps running until it returns
\* or raises
AlignSpec == Init /\ [][AlignNext]_vars /\ WF_vars(AlignNext)

TypeOK ==
    /\ level \in Levels
    /\ order \in Orders
    /\ silence_probability \in SilProbs
    /\ position_dependent_phones \in BOOLEAN
    /\ local \subseteq SeedFiles \cup TempFiles \cup {"lm_text.txt"}
    /\ output_dir.files \subseteq LangFiles \cup ShareFiles \cup FormattedFiles
    /\ tmp_dir.files \subseteq FormattedFiles
    /\ temp \in BOOLEAN
    /\ runNo \in 0..MaxRuns
    /\ Len(history) <= MaxRuns
    /\ args \in Args \cup {NoArgs}
    /\ recipe_dir \in BOOLEAN

(***************************************************************************)
(* Properties.                                                             *)
(***************************************************************************)
\* external programs of the n-gram computation stage
ComputeTools == {"add-start-end.sh", "build-lm.sh", "compile-lm"}
\* every external program run() may start
Tools == ComputeTools \cup {"utils/prepare_lang.sh", "prepare_lang_wpdpl.sh",
                            "fstcompile", "fstarcsort",
                            "utils/format_lm_sri.sh"}
Exited == pc \in {"returned", "raised"}
Count(seq, x) == Cardinality({ i \in DOMAIN seq : seq[i] = x })
NoCompute ==
    /\ "_compute_lm" \notin Range(stages)
    /\ Range(calls) \cap ComputeTools = {}

\* C1: when run() finds G.txt at its probe, it calls _compile_fst and, in
\* that run, neither _compute_lm (nor any of its programs) nor _format_lm,
\* whether G.arpa.gz is there or not.
C1_GrammarBranch ==
    (probed.done /\ probed.G_txt) =>
        /\ stages = <<"_prepare_lang", "_compile_fst">>
        /\ NoCompute
        /\ "utils/format_lm_sri.sh" \notin Range(calls)

C1_Witness ==
    /\ probed.done /\ probed.G_txt /\ probed.G_arpa
    /\ pc = "returned"

\* C2: when run() finds G.arpa.gz and no G.txt at its probe, it does not
\* call _compute_lm and it calls _format_lm, whose formatting program has
\* been started by the time the run exits.
C2_ArpaBranch ==
    (probed.done /\ probed.G_arpa /\ ~probed.G_txt) =>
        /\ stages = <<"_prepare_lang", "_format_lm">>
        /\ NoCompute
        /\ Exited => "utils/format_lm_sri.sh" \in Range(calls)

C2_Witness ==
    /\ probed.done /\ probed.G_arpa /\ ~probed.G_txt
    /\ pc = "returned"

\* C3: a run() that follows a run() which returned normally never enters
\* the n-gram computation stage nor starts one of its programs.
C3_IdempotentStaging ==
    (runNo >= 2 /\ history[runNo - 1].outcome = "returned") => NoCompute

C3_Witness ==
    /\ runNo = 2
    /\ history[1].outcome = "returned"
    /\ "_compute_lm" \in Range(history[1].stages)
    /\ pc = "returned"

\* C4: when format_lm_sri.sh has failed and _format_lm has been left,
\* output_dir is what it was when _format_lm was entered and the temporary
\* directory is gone.
C4_FormatCleanup ==
    (pc = "raised" /\ err = "utils/format_lm_sri.sh") =>
        /\ output_dir = fmtPre
        /\ ~tmp_dir.exists

C4_Witness ==
    /\ pc = "raised" /\ err = "utils/format_lm_sri.sh"
    /\ fmtPre.exists /\ "G.fst" \in fmtPre.files

\* C5: once _compute_lm has been left, normally or by a failure of any of
\* its steps, none of text_ready.txt, text_se.txt, text_lm.gz, text_blm.gz
\* is in the local directory and lm_text.txt is still there.
C5_ComputeCleanup ==
    ("_compute_lm" \in Range(stages)
        /\ pc \in {"call_format_lm", "raised", "returned"}) =>
        /\ local \cap TempFiles = {}
        /\ "lm_text.txt" \in local

C5_Witness ==
    /\ "_compute_lm" \in Range(stages)
    /\ pc = "raised" /\ err = "compile-lm"

\* C6: a run() entered with a level other than word/phone, an order that is
\* not an integer >= 1 or a silence probability outside [0, 1] raises
\* before any stage or external program is started, the file system being
\* as it was when run() was entered.
BadParameters ==
    \/ level \notin {"word", "phone"}
    \/ ~order.isInt
    \/ order.val < 1
    \/ silence_probability < 0
    \/ silence_probability > SilOne

C6_FailFast ==
    (BadParameters /\ runNo >= 1 /\ pc # "check_parameters") =>
        /\ pc = "raised" /\ err = "RuntimeError"
        /\ stages = <<>> /\ calls = <<>>
        /\ local = preRun.local /\ output_dir = preRun.output_dir
        /\ ~tmp_dir.exists /\ ~temp

C6_Witness ==
    /\ pc = "raised" /\ runNo = 1
    /\ order = [isInt |-> TRUE, val |-> 0]
    /\ level = "phone" /\ silence_probability = 1

\* C7: with level word, position_dependent_phones true and a valid order
\* and silence probability, check_parameters does not raise: the run warns
\* and goes on to prepare-lang.
C7_WarnOnly ==
    (/\ level = "word" /\ position_dependent_phones
     /\ order.isInt /\ order.val >= 1
     /\ silence_probability >= 0 /\ silence_probability <= SilOne
     /\ runNo >= 1 /\ pc # "check_parameters") =>
        /\ warned
        /\ err # "RuntimeError"
        /\ pc = "_prepare_lang" \/ "_prepare_lang" \in Range(stages)

C7_Witness ==
    /\ level = "word" /\ position_dependent_phones
    /\ warned /\ pc = "probe"

\* C8: once the align command has instantiated its recipe, the command
\* eventually ends, whatever create/run/export did, with recipe_dir deleted
\* when delete_recipe is true and kept when it is false, delete_recipe
\* being false exactly when the caller asked to keep the recipe.
C8_Teardown ==
    recipe.made ~>
        /\ apc \in {"returned", "raised"}
        /\ recipe.delete_recipe = ~args.recipe
        /\ recipe_dir = ~recipe.delete_recipe

C8_Witness ==
    /\ apc = "raised" /\ aerr = "run"
    /\ recipe.made /\ ~args.recipe /\ ~recipe_dir

\* C9 as stated: a stage whose primary output exists when run() reaches it
\* is not executed: prepare-lang when the lang files are in output_dir,
\* compute-ngram when G.arpa.gz exists, compile-from-grammar and
\* format-to-fst when G.fst exists.
C9_Original ==
    /\ (runNo >= 1 /\ LangFiles \subseteq preRun.output_dir.files) =>
           "_prepare_lang" \notin Range(stages)
    /\ (probed.done /\ probed.G_arpa) => NoCompute
    /\ (probed.done /\ probed.G_fst) =>
           /\ "_compile_fst" \notin Range(stages)
           /\ "_format_lm" \notin Range(stages)

\* C9 amended: of the stages only compute-ngram is gated by its output, it
\* is not executed when G.arpa.gz exists; prepare-lang is executed in every
\* run that passes the parameter check, and whether or not G.fst exists
\* compile-from-grammar is executed exactly when G.txt exists and
\* format-to-fst in every run without G.txt that gets that far.
C9_Gating ==
    /\ (runNo >= 1 /\ pc \notin {"check_parameters", "_prepare_lang"}
            /\ ~(pc = "raised" /\ err = "RuntimeError")) =>
           stages[1] = "_prepare_lang"
    /\ probed.done =>
           /\ probed.G_arpa => NoCompute
           /\ ("_compile_fst" \in Range(stages)) = probed.G_txt
           /\ (pc = "returned" /\ ~probed.G_txt) =>
                  "_format_lm" \in Range(stages)

C9_Witness ==
    /\ probed.done /\ probed.G_fst /\ probed.G_arpa /\ ~probed.G_txt
    /\ "_format_lm" \in Range(stages)
    /\ LangFiles \subseteq preRun.output_dir.files
    /\ pc = "returned"

LeavingAfterFailure ==
    \/ pc = "raised"
    \/ pc = "lm_finally" /\ err \in ComputeTools
    \/ pc = "fmt_finally" /\ err = "utils/format_lm_sri.sh"

\* the stage method that starts the program
Owner(prog) ==
    CASE prog \in ComputeTools -> "_compute_lm"
      [] prog \in {"fstcompile", "fstarcsort"} -> "_compile_fst"
      [] prog = "utils/format_lm_sri.sh" -> "_format_lm"
      [] OTHER -> "_prepare_lang"

\* C10: once an external program has failed, it is the last program this
\* run has started and it was started once, the stage that started it is
\* the last stage entered, only the enclosing finally block runs before the
\* run raises, and a run that returns normally has seen no failure.
C10_FatalNoRetry ==
    /\ err \in Tools =>
           /\ LeavingAfterFailure
           /\ calls[Len(calls)] = err
           /\ Count(calls, err) = 1
           /\ stages[Len(stages)] = Owner(err)
    /\ pc = "returned" => err = "none"

C10_Witness ==
    /\ pc = "raised" /\ err = "add-start-end.sh"
    /\ calls = <<"utils/prepare_lang.sh", "add-start-end.sh">>


\* C15: with --words-only and --post the align command raises
\* NotImplementedError before the recipe is instantiated, so that none of
\* create, run, export is ever called; with any other argument set that
\* error is not raised and the recipe is instantiated.
C15_IncompatibleOptions ==
    /\ (args.words_only /\ args.post /\ apc \notin {"start", "level"}) =>
           /\ apc = "raised" /\ aerr = "NotImplementedError"
           /\ ~recipe.made /\ ~recipe_dir
           /\ acalls = <<>>
    /\ (~(args.words_only /\ args.post) /\ apc \notin {"start", "level"}) =>
           /\ aerr # "NotImplementedError"
           /\ apc = "instantiate" \/ recipe.made

C15_Witness ==
    /\ args.words_only /\ args.post
    /\ apc = "raised"


\* C16 as stated: with level word the value of position_dependent_phones
\* has no effect on the external invocations: the prepare-lang command of
\* a run is the one that the run with the other value of the option
\* issues, so it is in any case the command issued with the option false.
C16_NoEffectOnWordLevel ==
    (level = "word" /\ "_prepare_lang" \in Range(stages)) =>
        command = [script |-> "utils/prepare_lang.sh",
                   position_dependent_phones |-> "false",
                   sil_prob |-> silence_probability,
                   src |-> "local",
                   tmp |-> "output_dir/local",
                   lang |-> "output_dir"]

\* C17: _prepare_lang runs prepare_lang_wpdpl.sh if and only if level is
\* phone and position_dependent_phones is true, and utils/prepare_lang.sh
\* of recipe_dir in every other case.
C17_ScriptSelection ==
    "_prepare_lang" \in Range(stages) =>
        /\ command.script \in {"prepare_lang_wpdpl.sh", "utils/prepare_lang.sh"}
        /\ (command.script = "prepare_lang_wpdpl.sh") =
               (level = "phone" /\ position_dependent_phones)
        /\ calls[1] = command.script

C17_Witness ==
    /\ level = "phone" /\ position_dependent_phones
    /\ calls = <<"prepare_lang_wpdpl.sh">>
    /\ pc = "probe"


\* C18: whenever _format_lm has been called in a run, G.arpa.gz exists;
\* when the probe found neither G.txt nor G.arpa.gz, _format_lm is called
\* only after _compute_lm ran its three programs and returned normally,
\* and a run in which _compute_lm failed never calls _format_lm.
ComputeFailures == ComputeTools \cup {"IOError"}

C18_FormatPrecondition ==
    /\ "_format_lm" \in Range(stages) => "G.arpa.gz" \in local
    /\ (probed.done /\ ~probed.G_txt /\ ~probed.G_arpa) =>
           /\ "_format_lm" \in Range(stages) =>
                  /\ stages = <<"_prepare_lang", "_compute_lm", "_format_lm">>
                  /\ ComputeTools \subseteq Range(calls)
                  /\ err \notin ComputeFailures
           /\ err \in ComputeFailures => "_format_lm" \notin Range(stages)

C18_Witness ==
    /\ probed.done /\ ~probed.G_txt /\ ~probed.G_arpa
    /\ "_format_lm" \in Range(stages)
    /\ pc = "returned"

\* C20: the align command calls create, run and export at most once each
\* and in that order: run only after create returned, export only after
\* run returned, and all of them only after the recipe was instantiated
\* with delete_recipe set to true exactly when the caller did not ask to
\* keep the recipe.
C20_LifecycleOrder ==
    /\ \/ acalls = <<>>
       \/ acalls = <<"create">>
       \/ acalls = <<"create", "run">>
       \/ acalls = <<"create", "run", "export">>
    /\ acalls # <<>> =>
           /\ recipe.made
           /\ recipe.delete_recipe = ~args.recipe
    /\ aerr = "create" => acalls = <<"create">>
    /\ aerr = "run" => acalls = <<"create", "run">>

C20_Witness ==
    /\ acalls = <<"create", "run">>
    /\ aerr = "run" /\ apc = "raised"
    /\ args.recipe


\* C19 as stated: output_dir is untouched until format_lm_sri.sh has
\* returned successfully, and whenever _format_lm has been left, normally
\* or by an exception, a failure of the remove or of the move included,
\* output_dir is either what it was when _format_lm was entered or the
\* complete directory the program produced.
C19_AtomicSwap ==
    /\ pc \in {"format_lm_sri", "fmt_remove"} => output_dir = fmtPre
    /\ (pc = "fmt_finally" /\ err = "utils/format_lm_sri.sh") =>
           output_dir = fmtPre
    /\ (/\ stages # <<>>
        /\ stages[Len(stages)] = "_format_lm"
        /\ pc \in {"returned", "raised"}) =>
           \/ output_dir = fmtPre
           \/ output_dir = Dir(FormattedFiles)


\* the AIC symbol the table gives for one CMU code
image(code) == (CHOOSE p \in Range(Replacements) : p[1] = code)[2]

\* C11: for every pronunciation made of CMU codes of the table separated by
\* spaces, the replacements of make_lexicon_aux give the images of the
\* codes, code by code: a two-letter code is converted as a whole and no
\* converted symbol is converted again.
C11_LongestMatchFirst ==
    ppc \in {"unmap", "remapped"} =>
        aic_trs = join([i \in DOMAIN phones |-> image(phones[i])])

C11_Witness ==
    /\ ppc = "unmap"
    /\ phones = <<"DH", "D">>
    /\ aic_trs = "xd d"

\* C12: converting with the table and back with its inverse, two-letter
\* symbols first in both, is the identity: on the CMU pronunciations (the
\* conversion is injective) and on the AIC pronunciations they convert to.
C12_RoundTrip ==
    ppc = "remapped" =>
        /\ cmu_trs = phn_trs
        /\ cmu_to_aic(cmu_trs) = aic_trs

C12_Witness ==
    /\ ppc = "remapped"
    /\ phones = <<"TH", "T">>
    /\ aic_trs = "xt t"
    /\ cmu_trs = "TH T"

\* the lexicon has an entry for the word
HasEntry(lines, word) ==
    \E i \in DOMAIN lines : SubSeq(lines[i], 1, Len(word) + 1) = word \o " "

\* C13: once make_lexicon_aux has returned, a word of the transcription
\* that is not an entry of the CMU dictionary has a lexicon entry exactly
\* when it occurs more than once in the transcription.
C13_OovFilter ==
    ppc \in {"remove", "returned"} =>
        LET frequency == dict_word_of(transcription_file)
            entries == DOMAIN cmu_dict_of(cmu_dict)
        IN  \A w \in DOMAIN frequency :
                w \notin entries =>
                    (HasEntry(lexicon_file.lines, lower(w)) <=> frequency[w] > 1)

C13_Witness ==
    /\ ppc = "returned"
    /\ cmu_dict = <<"HI  HH AY1\n">>
    /\ transcription_file = <<"m2_s_2 z:u z:u hi\n", "f01_p_1 hi she\n">>
    /\ lexicon_file.lines = <<"hi h xy\n", "z:u z u\n">>

\* the lines of a file that match the pattern of their loop
DictionaryMatching(lines) == SelectSeq(lines, LAMBDA l : dictionary(l).matched)
TranscriptionMatching(lines) ==
    SelectSeq(lines, LAMBDA l : matched_transcription(l).matched)
LexiconMatching(lines) == SelectSeq(lines, LAMBDA l : matched_lexicon(l).matched)
OovMatching(lines) == SelectSeq(lines, LAMBDA l : matched_oov(l).matched)

C21_ArtifactImpliesCompletion ==
    runNo > 0 =>
        /\ "G.arpa.gz" \in local \ preRun.local =>
               /\ "_compute_lm" \in Range(stages)
               /\ ComputeTools \subseteq Range(calls)
               /\ err \notin ComputeTools
        /\ (Exited /\ err \in ComputeTools) => "G.arpa.gz" \notin local
        /\ "G.fst" \in local \ preRun.local =>
               /\ "_compile_fst" \in Range(stages)
               /\ pc \in {"fst_remove", "returned"}
               /\ err = "none"


\* positions inside the three stage methods
CompilePcs == {"fst_temp", "fstcompile", "fstarcsort", "fst_remove"}
ComputePcs == {"lm_text_ready", "add_start_end", "build_lm", "compile_lm",
               "gzip", "lm_finally"}
FormatPcs == {"fmt_mkdtemp", "format_lm_sri", "fmt_remove", "fmt_move",
              "fmt_finally"}
InStage(stage) == stages # <<>> /\ stages[Len(stages)] = stage
\* _format_lm has recorded the output directory it found
FormatEntered == InStage("_format_lm") /\ pc # "fmt_mkdtemp"

\* C22 as stated: format-to-fst neither removes nor overwrites what
\* prepare-lang produced: from its entry on, output_dir exists and still
\* holds every file it held when the stage was entered.
C22_Original ==
    FormatEntered =>
        /\ output_dir.exists
        /\ fmtPre.files \subseteq output_dir.files

\* C22 amended: every step of compile-from-grammar changes at most G.fst in
\* the local directory and its temporary file; every step of compute-ngram
\* changes at most G.arpa.gz and its four temporary files in the local
\* directory; prepare-lang only adds files to output_dir; format-to-fst
\* leaves the local directory alone and replaces output_dir as a whole, by
\* removing it and moving in the directory the formatting program filled.
C22_Ownership ==
    [][/\ pc \in CompilePcs =>
              /\ local' \ {"G.fst"} = local \ {"G.fst"}
              /\ output_dir' = output_dir /\ tmp_dir' = tmp_dir
       /\ pc \in ComputePcs =>
              /\ local' \ (TempFiles \cup {"G.arpa.gz"})
                     = local \ (TempFiles \cup {"G.arpa.gz"})
              /\ output_dir' = output_dir /\ tmp_dir' = tmp_dir
              /\ temp' = temp
       /\ pc = "_prepare_lang" =>
              /\ local' = local /\ tmp_dir' = tmp_dir /\ temp' = temp
              /\ output_dir.files \subseteq output_dir'.files
       /\ pc \in FormatPcs =>
              /\ local' = local /\ temp' = temp
              /\ output_dir' \in {output_dir, Absent, tmp_dir}
       /\ pc = "fmt_move" => output_dir' = tmp_dir
      ]_vars

\* compute-ngram and format-to-fst both succeeded: output_dir is the
\* directory of the formatting program, without the scripts it held before
C22_Witness ==
    /\ pc = "returned"
    /\ stages = <<"_prepare_lang", "_compute_lm", "_format_lm">>
    /\ ShareFiles \subseteq fmtPre.files
    /\ output_dir = Dir(FormattedFiles)
    /\ local = {"lm_text.txt", "G.arpa.gz"}


(***************************************************************************)
(* Cleanup of temporary files.                                             *)
(***************************************************************************)
\* C23: when _compile_fst has exited, by returning or by the failure of
\* fstcompile or fstarcsort, the temporary file it created no longer exists.
C23_ScopedCleanup ==
    (Exited /\ InStage("_compile_fst")) => ~temp


\* C24: a failure to delete a temporary file or directory stays inside the
\* stage: the step of _compile_fst, _compute_lm or _format_lm that removes
\* the temporary files leaves the error in flight as it was, and a stage
\* that reached this step without an error does not end by raising.
C24_CleanupSwallowed ==
    [][/\ pc \in {"fst_remove", "lm_finally", "fmt_finally"} => err' = err
       /\ (pc \in {"fst_remove", "lm_finally", "fmt_finally"} /\ err = "none")
              => pc' # "raised"
      ]_vars


(***************************************************************************)
(* create().                                                               *)
(***************************************************************************)
\* C25: create() checks the level first and nothing else.  With a level
\* that is neither 'word' nor 'phone' it raises having made no setup call
\* and written no file; with any other parameters, an order below 1 or a
\* silence probability outside [0, 1] included, it does not raise.  At word
\* level lm_text.txt is written by copying the text and no phone lexicon is
\* set up; at phone level it is written by io.word2phone and the phone
\* lexicon is set up.
C25_CreateByLevel ==
    pc = "idle" =>
        /\ level \notin {"word", "phone"} =>
               /\ err = "RuntimeError"
               /\ setup = <<>>
               /\ "lm_text.txt" \notin local
               /\ output_dir = Absent
        /\ level \in {"word", "phone"} =>
               /\ err = "none"
               /\ "lm_text.txt" \in local
               /\ SubSeq(setup, 1, 6) =
                      <<"setup_phones", "setup_silences", "setup_variants",
                        "desired_utterances", "setup_text", "setup_lexicon">>
        /\ level = "word" =>
               /\ "shutil.copy(text, lm_text)" \in Range(setup)
               /\ "io.word2phone(lexicon, text, lm_text)" \notin Range(setup)
               /\ "setup_phone_lexicon" \notin Range(setup)
        /\ level = "phone" =>
               /\ "io.word2phone(lexicon, text, lm_text)" \in Range(setup)
               /\ "shutil.copy(text, lm_text)" \notin Range(setup)
               /\ "setup_phone_lexicon" \in Range(setup)

\* create() has set up a word-level model whose order and silence
\* probability run() will reject
C25_Witness ==
    /\ pc = "idle"
    /\ level = "word"
    /\ order = [isInt |-> TRUE, val |-> 0]
    /\ silence_probability > SilOne
    /\ err = "none"
    /\ setup = <<"setup_phones", "setup_silences", "setup_variants",
                 "desired_utterances", "setup_text", "setup_lexicon",
                 "shutil.copy(text, lm_text)", "setup_kaldi_folders",
                 "setup_machine_specific_scripts",
                 "_setup_prepare_lang_wpdpl">>


(***************************************************************************)
(* The phone inventory of the AIC preparator.                              *)
(***************************************************************************)
\* the keys of AICPreparator.phones
phones_keys ==
    {"a", "xq", "xa", "c", "xw", "xy", "xr", "xe", "e", "xi", "i", "o", "xo",
     "xu", "u", "b", "xc", "d", "xd", "f", "g", "h", "xj", "k", "l", "m", "n",
     "xg", "p", "r", "s", "xs", "t", "xt", "v", "w", "y", "z", "xz"}
\* AICPreparator.silences, and the two symbols added automatically
silences == <<"NSN">>
silence_symbols == Range(silences) \cup {"SPN", "SIL"}

\* the pronunciation as the dictionary gives it, every code with stress mark d
stressed(d) == join([i \in DOMAIN phones |-> phones[i] \o d])
symbols(s) == Range(split(s))

\* C26: for a dictionary pronunciation made of CMU phone codes, with or
\* without stress digits, stripping the digits 0, 1 and 2 leaves the codes,
\* and every symbol of the pronunciation make_lexicon_aux writes is a key of
\* the phone inventory, has no upper-case letter and is not a silence.
C26_InventoryClosure ==
    ppc \in {"unmap", "remapped"} =>
        /\ \A d \in {"0", "1", "2"} : remove_variants(stressed(d)) = phn_trs
        /\ Cardinality(symbols(aic_trs)) = Cardinality(Range(phones))
        /\ \A symbol \in symbols(aic_trs) :
               /\ symbol \in phones_keys
               /\ Positions(symbol, DOMAIN to_lower) = {}
               /\ symbol \notin silence_symbols

C26_Witness ==
    /\ ppc = "unmap"
    /\ phones = <<"ZH", "NG">>
    /\ phn_trs = "ZH NG"
    /\ aic_trs = "xz xg"

====
